---- MODULE Spec2Model ----
(***************************************************************************)
(* Model of src/app.py, the EC sales analysis dashboard (a Streamlit       *)
(* script).  Every user interaction re-runs the whole script: load_data,   *)
(* the sidebar widgets, the filter block, and the derived tables handed to *)
(* the charts.  One action of the model is one such script run.            *)
(*                                                                         *)
(* Column names of the data are Japanese in the source; the model uses    *)
(* ASCII field names:                                                      *)
(*   customer_id = 顧客ID      purchase_date = 購入日   amount = 購入金額  *)
(*   category = 購入カテゴリー  region = 地域  gender = 性別  age = 年齢   *)
(*   payment = 支払方法  age_band = 年齢層  weekday = 曜日  month = 月     *)
(*   hour = 時間帯  amount_band = 購入金額帯  price_band = 価格帯          *)
(*   moving_avg = 移動平均                                                 *)
(* and "ALL" for the selectbox option 'すべて'.                            *)
(*                                                                         *)
(* pandas semantics are those of the pandas releases the script runs on    *)
(* (pd.Grouper(freq='M') is only accepted before pandas 3, where groupby   *)
(* and pivot_table on a categorical key default to observed=False).        *)
(***************************************************************************)
EXTENDS Integers, Sequences, FiniteSets, TLC

\* ------------------------------------------------------------------ bounds
\* Longest data file (number of rows of data/sample-data.csv) explored.
MaxRecords == 2

\* Number of user interactions (script re-runs after the first run) explored.
MaxInteractions == 2

\* ------------------------------------------------------- values and markers
\* The selectbox entry 'すべて' that leaves a slot inactive.
ALL == "ALL"

\* The missing value of a categorical column (pandas' NaN category).
NaN == "NaN"

\* ------------------------------------------------------------- input rows
\* Rows a data file may contain.  purchase_date is <<year, month, day, hour>>
\* as written in the file; 2023-12-31 is a Sunday, 2024-01-01 and 2024-02-05
\* are Mondays, 2024-01-02 is a Tuesday.
SampleRows ==
  { [customer_id |-> 1, purchase_date |-> <<2023, 12, 31, 9>>, amount |-> 4000,
     category |-> "Food", region |-> "East", gender |-> "F", age |-> 19,
     payment |-> "card"],
    [customer_id |-> 2, purchase_date |-> <<2024, 1, 1, 9>>, amount |-> 5000,
     category |-> "Food", region |-> "West", gender |-> "M", age |-> 20,
     payment |-> "cash"],
    [customer_id |-> 1, purchase_date |-> <<2024, 1, 1, 15>>, amount |-> 6000,
     category |-> "Books", region |-> "East", gender |-> "M", age |-> 35,
     payment |-> "card"],
    [customer_id |-> 3, purchase_date |-> <<2024, 2, 5, 15>>, amount |-> 5000,
     category |-> "Books", region |-> "West", gender |-> "F", age |-> 70,
     payment |-> "cash"],
    [customer_id |-> 2, purchase_date |-> <<2024, 1, 2, 9>>, amount |-> 4000,
     category |-> "Books", region |-> "West", gender |-> "F", age |-> 100,
     payment |-> "card"] }

\* Longest of the data files that hold one customer's purchase history.
MaxSeries == 8

\* The i-th purchase of such a history: three purchases a month from
\* 2023-11 on (the 1st at 9h, the 1st at 15h, the 28th at 9h), of varying
\* amounts.
series_row(i) ==
  [ customer_id   |-> 7,
    purchase_date |-> << 2023 + ((10 + ((i - 1) \div 3)) \div 12),
                         ((10 + ((i - 1) \div 3)) % 12) + 1,
                         IF (i - 1) % 3 = 2 THEN 28 ELSE 1,
                         IF (i - 1) % 3 = 1 THEN 15 ELSE 9 >>,
    amount        |-> 100 * (1 + ((3 * i) % 5)),
    category      |-> "Food",
    region        |-> "East",
    gender        |-> "F",
    age           |-> 35,
    payment       |-> "card" ]

\* Two data files at the ends of the amount scale: one with a free item
\* (amount 0), one with an amount of 100000.
EdgeStores ==
  { << [customer_id |-> 4, purchase_date |-> <<2024, 3, 1, 9>>, amount |-> 0,
        category |-> "Food", region |-> "East", gender |-> "F", age |-> 69,
        payment |-> "card"],
       [customer_id |-> 5, purchase_date |-> <<2024, 3, 2, 9>>, amount |-> 1000,
        category |-> "Books", region |-> "West", gender |-> "M", age |-> 70,
        payment |-> "cash"] >>,
    << [customer_id |-> 4, purchase_date |-> <<2024, 3, 1, 9>>, amount |-> 99000,
        category |-> "Food", region |-> "East", gender |-> "F", age |-> 99,
        payment |-> "card"],
       [customer_id |-> 5, purchase_date |-> <<2024, 3, 2, 9>>, amount |-> 100000,
        category |-> "Books", region |-> "West", gender |-> "M", age |-> 0,
        payment |-> "cash"] >> }

\* The data files explored: every non-empty sequence of at most MaxRecords
\* sample rows, the purchase histories of up to MaxSeries rows, newest row
\* first, and the two files at the ends of the amount scale.
Stores ==
  UNION { [1..n -> SampleRows] : n \in 1..MaxRecords }
  \cup { [j \in 1..n |-> series_row(n + 1 - j)] : n \in 1..MaxSeries }
  \cup EdgeStores

\* ------------------------------------------------------- generic helpers
\* Series.sum(): the sum of a sequence of integers (0 for the empty one).
SeqSum(s) ==
  LET f[i \in 0..Len(s)] == IF i = 0 THEN 0 ELSE f[i - 1] + s[i]
  IN  f[Len(s)]

\* The values of the column named col over the rows of a frame, in row order.
Column(d, col) == [i \in 1..Len(d) |-> d[i][col]]

\* The set of elements of a sequence.
Range(s) == { s[i] : i \in 1..Len(s) }

\* Series.unique() as a set: the distinct values of a column.
Unique(d, col) == { d[i][col] : i \in 1..Len(d) }

\* Code-point order of the strings that occur as category values.
Collation ==
  <<"Books", "East", "F", "Food", "Friday", "M", "Monday", "Saturday", "Sunday",
    "Thursday", "Tuesday", "Wednesday", "West", "card", "cash">>

StrRank(s) == CHOOSE i \in 1..Len(Collation) : Collation[i] = s

StrLess(a, b) == StrRank(a) < StrRank(b)

\* Lexicographic order of two strings given as sequences of character codes.
CodesLess(a, b) ==
  \E k \in 1..(Len(a) + 1) :
     /\ k <= Len(b)
     /\ \A j \in 1..(k - 1) : a[j] = b[j]
     /\ (k = Len(a) + 1 \/ a[k] < b[k])

\* ------------------------------------------------------------ date and time
\* pd.to_datetime: the file's date-time text becomes a Timestamp.
to_datetime(t) == [year |-> t[1], month |-> t[2], day |-> t[3], hour |-> t[4]]

\* Series.dt.date / the date widget's conversion: the calendar date of a Timestamp.
dt_date(ts) == <<ts.year, ts.month, ts.day>>

\* datetime.date comparison a <= b.
DateLeq(a, b) ==
  \/ a[1] < b[1]
  \/ a[1] = b[1] /\ a[2] < b[2]
  \/ a[1] = b[1] /\ a[2] = b[2] /\ a[3] <= b[3]

\* Timestamp comparison a < b.
TsLess(a, b) ==
  \/ ~ DateLeq(dt_date(b), dt_date(a))
  \/ dt_date(a) = dt_date(b) /\ a.hour < b.hour

\* a < b for two group keys of the given kind: integers, strings, strings
\* held as character codes, Timestamps, and the <<Timestamp, string>> keys of
\* a groupby on two columns.
key_less(kind, a, b) ==
  CASE kind = "int"       -> a < b
    [] kind = "str"       -> StrLess(a, b)
    [] kind = "codes"     -> CodesLess(a, b)
    [] kind = "Timestamp" -> TsLess(a, b)
    [] kind = "Timestamp, str" ->
         TsLess(a[1], b[1]) \/ (a[1] = b[1] /\ StrLess(a[2], b[2]))

\* The elements of a finite set of keys in ascending order (the sorted group
\* keys of a groupby).
SortedSeq(S, kind) ==
  [i \in 1..Cardinality(S) |->
     CHOOSE x \in S : Cardinality({y \in S : key_less(kind, y, x)}) = i - 1]

\* Series.dt.hour
dt_hour(ts) == ts.hour

\* Series.dt.month
dt_month(ts) == ts.month

\* Days since 1970-01-01 of a proleptic Gregorian date.
DaysFromCivil(y, m, d) ==
  LET yy  == IF m <= 2 THEN y - 1 ELSE y
      era == yy \div 400
      yoe == yy - era * 400
      mp  == IF m > 2 THEN m - 3 ELSE m + 9
      doy == (153 * mp + 2) \div 5 + d - 1
      doe == yoe * 365 + yoe \div 4 - yoe \div 100 + doy
  IN  era * 146097 + doe - 719468

weekday_order ==
  <<"Monday", "Tuesday", "Wednesday", "Thursday", "Friday", "Saturday", "Sunday">>

\* Series.dt.day_name(): 1970-01-01 was a Thursday.
dt_day_name(ts) ==
  weekday_order[((DaysFromCivil(ts.year, ts.month, ts.day) + 3) % 7) + 1]

\* Series.dt.strftime('%Y-%m') as character codes ("0" is 48, "-" is 45).
strftime_Ym(ts) ==
  << 48 + ((ts.year \div 1000) % 10), 48 + ((ts.year \div 100) % 10),
     48 + ((ts.year \div 10) % 10),   48 + (ts.year % 10),
     45,
     48 + ((ts.month \div 10) % 10),  48 + (ts.month % 10) >>

\* ------------------------------------------------------------------- bands
age_bins == <<0, 20, 30, 40, 50, 60, 70, 100>>

\* '20歳未満', '20-30歳', '31-40歳', '41-50歳', '51-60歳', '61-70歳', '71歳以上'
age_labels == <<"<20", "20-30", "31-40", "41-50", "51-60", "61-70", "71+">>

amount_bins == <<0, 5000, 10000, 30000, 50000, 100000>>

\* '5,000円未満', '5,000-10,000円', '10,000-30,000円', '30,000-50,000円', '50,000円以上'
amount_labels == <<"<5000", "5000-10000", "10000-30000", "30000-50000", ">=50000">>

\* pd.cut(x, bins, labels, right=False): the label of the interval
\* [bins[i], bins[i+1]) holding x, and NaN when x lies in none of them.
cut(x, bins, labels) ==
  IF \E i \in 1..Len(labels) : bins[i] <= x /\ x < bins[i + 1]
  THEN labels[CHOOSE i \in 1..Len(labels) : bins[i] <= x /\ x < bins[i + 1]]
  ELSE NaN

\* Position of a label among the ordered categories of a categorical column.
LabelRank(labels, l) == CHOOSE i \in 1..Len(labels) : labels[i] = l

\* ---------------------------------------------------------------- loading
\* pd.read_csv followed by the conversion of 購入日.  Each row gets its
\* label in the frame's RangeIndex, which it keeps through every selection.
read_csv(rows) ==
  [i \in 1..Len(rows) |->
     [rows[i] EXCEPT !.purchase_date = to_datetime(rows[i].purchase_date)]
     @@ [index |-> i - 1]]

\* A cache that hands out the cached frame itself, so that the run's
\* selection is what the next run loads.
CacheAfterRun_shared(loaded, view) == view

\* What @st.cache_data keeps for load_data once a script run is over: the
\* frame the function returned.  Callers get a copy, so neither the column
\* added to df nor the filtering of the run reaches the cached frame.
CacheAfterRun(loaded, view) == loaded

\* load_data(): the cached frame, or the parsed file on the first call.
load_data(cached, rows) == IF cached = <<>> THEN read_csv(rows) ELSE cached

\* df['年齢層'] = pd.cut(df['年齢'], ...)
with_age_band(d) ==
  [i \in 1..Len(d) |-> d[i] @@ [age_band |-> cut(d[i].age, age_bins, age_labels)]]

\* ---------------------------------------------------------------- widgets
\* Series.min() / Series.max() of 購入日.
min_date(d) ==
  CHOOSE t \in Unique(d, "purchase_date") :
     \A u \in Unique(d, "purchase_date") : ~ TsLess(u, t)

max_date(d) ==
  CHOOSE t \in Unique(d, "purchase_date") :
     \A u \in Unique(d, "purchase_date") : ~ TsLess(t, u)

\* int(df['購入金額'].min()) / int(df['購入金額'].max())
min_amount(d) ==
  CHOOSE a \in Unique(d, "amount") :
     \A b \in Unique(d, "amount") : a <= b

max_amount(d) ==
  CHOOSE a \in Unique(d, "amount") :
     \A b \in Unique(d, "amount") : a >= b

\* Options of the five selectboxes.
categories(d) == {ALL} \cup Unique(d, "category")

regions(d) == {ALL} \cup Unique(d, "region")

genders(d) == {ALL} \cup Unique(d, "gender")

age_ranges(d) == {ALL} \cup Unique(d, "age_band")

payment_methods(d) == {ALL} \cup Unique(d, "payment")

\* Values st.sidebar.date_input can return: no date, a start date only, or a
\* start and an end.  The dates tried are those on which the data has a row.
date_range_values(d) ==
  LET days == { dt_date(t) : t \in Unique(d, "purchase_date") }
  IN  {<<>>} \cup { <<a>> : a \in days }
             \cup { p \in days \X days : DateLeq(p[1], p[2]) }

\* Values of the 購入金額範囲 slider: stops of step 1000 from min_amount, and
\* max_amount.
amount_range_values(d) ==
  LET stops == { min_amount(d) + 1000 * k :
                   k \in 0..((max_amount(d) - min_amount(d)) \div 1000) }
                \cup {max_amount(d)}
  IN  { p \in stops \X stops : p[1] <= p[2] }

\* The widgets' values on the first run of the script.
default_widgets(d) ==
  [ date_range         |-> <<dt_date(min_date(d)), dt_date(max_date(d))>>,
    selected_category  |-> ALL,
    selected_region    |-> ALL,
    selected_gender    |-> ALL,
    selected_age_range |-> ALL,
    selected_payment   |-> ALL,
    amount_range       |-> <<min_amount(d), max_amount(d)>> ]

\* ------------------------------------------------------------ filter block
\* The date step taking a lone date as a start bound.
date_filter_start_only(d, date_range) ==
  IF Len(date_range) = 2
  THEN SelectSeq(d, LAMBDA r : /\ DateLeq(date_range[1], dt_date(r.purchase_date))
                               /\ DateLeq(dt_date(r.purchase_date), date_range[2]))
  ELSE IF Len(date_range) = 1
  THEN SelectSeq(d, LAMBDA r : DateLeq(date_range[1], dt_date(r.purchase_date)))
  ELSE d

\* if len(date_range) == 2: df[mask].copy()  else: df.copy()
date_filter(d, date_range) ==
  IF Len(date_range) = 2
  THEN SelectSeq(d, LAMBDA r : /\ DateLeq(date_range[1], dt_date(r.purchase_date))
                               /\ DateLeq(dt_date(r.purchase_date), date_range[2]))
  ELSE d

category_filter(d, selected) ==
  IF selected # ALL THEN SelectSeq(d, LAMBDA r : r.category = selected) ELSE d

region_filter(d, selected) ==
  IF selected # ALL THEN SelectSeq(d, LAMBDA r : r.region = selected) ELSE d

gender_filter(d, selected) ==
  IF selected # ALL THEN SelectSeq(d, LAMBDA r : r.gender = selected) ELSE d

\* A categorical column compared with a value that is none of its categories
\* (the nan entry of the selectbox) is False on every row, and a row whose
\* band is missing equals no label.
age_range_filter(d, selected) ==
  IF selected # ALL
  THEN SelectSeq(d, LAMBDA r : selected # NaN /\ r.age_band = selected)
  ELSE d

payment_filter(d, selected) ==
  IF selected # ALL THEN SelectSeq(d, LAMBDA r : r.payment = selected) ELSE d

\* The amount step with its lower comparison turned round.
amount_filter_lower_flipped(d, amount_range) ==
  SelectSeq(d, LAMBDA r : r.amount <= amount_range[1] /\ r.amount <= amount_range[2])

amount_filter(d, amount_range) ==
  SelectSeq(d, LAMBDA r : r.amount >= amount_range[1] /\ r.amount <= amount_range[2])

\* The block with the region step selecting from df instead of df_filtered,
\* which drops what the steps before it excluded.
filter_block_region_from_df(d, w) ==
  LET f3 == region_filter(d, w.selected_region)
      f4 == gender_filter(f3, w.selected_gender)
      f5 == age_range_filter(f4, w.selected_age_range)
      f6 == payment_filter(f5, w.selected_payment)
  IN  amount_filter(f6, w.amount_range)

\* The whole block: each step filters the result of the one before.
filter_block(d, w) ==
  LET f1 == date_filter(d, w.date_range)
      f2 == category_filter(f1, w.selected_category)
      f3 == region_filter(f2, w.selected_region)
      f4 == gender_filter(f3, w.selected_gender)
      f5 == age_range_filter(f4, w.selected_age_range)
      f6 == payment_filter(f5, w.selected_payment)
  IN  amount_filter(f6, w.amount_range)

\* ------------------------------------------------- columns added by a run
\* '月曜日' ... '日曜日', romanised.
weekday_japanese ==
  [ Monday |-> "getsuyobi", Tuesday |-> "kayobi", Wednesday |-> "suiyobi",
    Thursday |-> "mokuyobi", Friday |-> "kinyobi", Saturday |-> "doyobi",
    Sunday |-> "nichiyobi" ]

\* The columns the script adds to df_filtered on its way through the tabs:
\* 曜日, 月, 時間帯, 年齢層 (cut again), 購入金額帯 and 価格帯.
with_derived(v) ==
  [i \in 1..Len(v) |->
     [v[i] EXCEPT !.age_band = cut(v[i].age, age_bins, age_labels)]
     @@ [ weekday     |-> dt_day_name(v[i].purchase_date),
          month       |-> dt_month(v[i].purchase_date),
          hour        |-> dt_hour(v[i].purchase_date),
          amount_band |-> cut(v[i].amount, amount_bins, amount_labels),
          price_band  |-> cut(v[i].amount, amount_bins, amount_labels) ]]

\* ------------------------------------------------------------- aggregation
\* The rows of one group of a groupby.
group_rows(v, key, k) == SelectSeq(v, LAMBDA r : r[key] = k)

\* groupby(key)['購入金額'].agg(['sum', 'count']).reset_index() over the group
\* keys `keys` (one row per key, in that order).
agg_sum_count(v, key, keys) ==
  [i \in 1..Len(keys) |->
     [ key   |-> keys[i],
       sum   |-> SeqSum(Column(group_rows(v, key, keys[i]), "amount")),
       count |-> Len(group_rows(v, key, keys[i])) ]]

\* Group keys of a groupby on a string column: the values present, sorted.
observed_keys(v, key) == SortedSeq(Unique(v, key), "str")

\* A float is kept exact, as numerator and denominator; the denominator 0
\* marks the values that are no number: 0/0 is NaN and 1/0 is inf.
float_nan == [num |-> 0, den |-> 0]

float_inf == [num |-> 1, den |-> 0]

\* An integer as a float.
as_float(x) == [num |-> x, den |-> 1]

\* Float division of two non-negative integers as numpy does it: 0/0 is NaN
\* and x/0 is inf.
true_divide(a, b) ==
  IF b = 0 THEN (IF a = 0 THEN float_nan ELSE float_inf) ELSE [num |-> a, den |-> b]

\* A float multiplied by a positive integer.
times(q, k) == IF q.den = 0 THEN q ELSE [num |-> q.num * k, den |-> q.den]

\* A rolling mean that averages whatever rows it has (min_periods=1).
rolling_mean_min_periods_1(vals, window) ==
  [i \in 1..Len(vals) |->
     IF i < window THEN true_divide(SeqSum(SubSeq(vals, 1, i)), i)
     ELSE true_divide(SeqSum(SubSeq(vals, i - window + 1, i)), window)]

\* Series.rolling(window).mean(): NaN until the window is full, then the mean
\* of the last `window` values.
rolling_mean(vals, window) ==
  [i \in 1..Len(vals) |->
     IF i < window THEN float_nan
     ELSE true_divide(SeqSum(SubSeq(vals, i - window + 1, i)), window)]

\* rolling(window=3) of the monthly series, rolling(window=7) of the daily one.
monthly_window == 3

daily_window == 7

\* The frame with one more column, the key series of a groupby.
with_key(v, key) == [i \in 1..Len(v) |-> v[i] @@ [group_key |-> key[i]]]

\* df_filtered.groupby(df_filtered['購入日'].dt.strftime('%Y-%m'))[['購入金額']]
\*   .sum().reset_index(), and its 移動平均 column.
monthly_sales(v) ==
  LET keyed == with_key(v, [i \in 1..Len(v) |-> strftime_Ym(v[i].purchase_date)])
      keys  == SortedSeq(Unique(keyed, "group_key"), "codes")
      sums  == [i \in 1..Len(keys) |->
                  SeqSum(Column(group_rows(keyed, "group_key", keys[i]), "amount"))]
      avg   == rolling_mean(sums, monthly_window)
  IN  [i \in 1..Len(keys) |->
         [purchase_date |-> keys[i], amount |-> sums[i], moving_avg |-> avg[i]]]

\* df_filtered.groupby('購入日')[['購入金額']].sum().reset_index(), and its
\* 移動平均 column.  The group key is the 購入日 value itself, a Timestamp.
daily_sales(v) ==
  LET keys == SortedSeq(Unique(v, "purchase_date"), "Timestamp")
      sums == [i \in 1..Len(keys) |->
                 SeqSum(Column(group_rows(v, "purchase_date", keys[i]),
                               "amount"))]
      avg  == rolling_mean(sums, daily_window)
  IN  [i \in 1..Len(keys) |->
         [purchase_date |-> keys[i], amount |-> sums[i], moving_avg |-> avg[i]]]

\* weekday_sales: grouped by 曜日, the key renamed to Japanese, and the rows
\* then sorted in weekday order (the sort key maps the names back).
weekday_sales(v) ==
  LET rows    == agg_sum_count(v, "weekday",
                               observed_keys(v, "weekday"))
      renamed == [i \in 1..Len(rows) |->
                    [rows[i] EXCEPT !.key = weekday_japanese[rows[i].key]]]
      english(j) == CHOOSE d \in DOMAIN weekday_japanese : weekday_japanese[d] = j
  IN  SortSeq(renamed, LAMBDA a, b : LabelRank(weekday_order, english(a.key))
                                     < LabelRank(weekday_order, english(b.key)))

\* monthly_distribution: grouped by 月, the key then written as f'{x}月'.
monthly_distribution(v) ==
  LET keys == SortedSeq(Unique(v, "month"), "int")
      rows == agg_sum_count(v, "month", keys)
  IN  [i \in 1..Len(rows) |-> [rows[i] EXCEPT !.key = <<rows[i].key, "gatsu">>]]

\* groupby on the categorical 年齢層: one row per category of the column,
\* observed or not; rows whose band is missing belong to no group.
age_distribution(v) == agg_sum_count(v, "age_band", age_labels)

\* groupby on the categorical 購入金額帯 with 顧客ID count and 購入金額 sum.
amount_range_dist(v) == agg_sum_count(v, "amount_band", amount_labels)

\* groupby(key)['購入金額'].sum().reset_index()
agg_sum(v, key, keys) ==
  [i \in 1..Len(keys) |->
     [ key |-> keys[i],
       sum |-> SeqSum(Column(group_rows(v, key, keys[i]), "amount")) ]]

gender_distribution(v) ==
  agg_sum(v, "gender", observed_keys(v, "gender"))

region_distribution(v) ==
  agg_sum_count(v, "region", observed_keys(v, "region"))

category_sales(v) ==
  agg_sum(v, "category", observed_keys(v, "category"))

payment_distribution(v) ==
  agg_sum_count(v, "payment", observed_keys(v, "payment"))

\* ------------------------------------------------------------------ pivots
\* aggfunc='sum' and aggfunc='count' of 購入金額 over the rows of a group.
aggregate(g, aggfunc) ==
  IF aggfunc = "sum" THEN SeqSum(Column(g, "amount")) ELSE Len(g)

\* pd.pivot_table(v, values='購入金額', index=..., columns=..., aggfunc=...,
\* fill_value=...): one row per key of `index`, one column per key of
\* `columns`; a cell with no contributing row holds fill_value.
pivot_table(v, index_col, columns_col, index, columns, aggfunc, fill_value) ==
  [ index   |-> index,
    columns |-> columns,
    values  |->
      [rk \in Range(index) |->
         [ck \in Range(columns) |->
            IF \E i \in 1..Len(v) : v[i][index_col] = rk /\ v[i][columns_col] = ck
            THEN aggregate(SelectSeq(v, LAMBDA r : r[index_col] = rk
                                                   /\ r[columns_col] = ck),
                           aggfunc)
            ELSE fill_value]] ]

\* DataFrame.reindex(columns=new_columns): the columns asked for, in that
\* order; one the frame does not have is filled with NaN (the cells are held
\* as floats from here on).
reindex_columns(t, new_columns) ==
  [ index   |-> t.index,
    columns |-> new_columns,
    values  |->
      [rk \in Range(t.index) |->
         [ck \in Range(new_columns) |->
            IF ck \in Range(t.columns) THEN as_float(t.values[rk][ck])
            ELSE float_nan]] ]

\* heatmap_data.columns = [weekday_japanese[day] for day in heatmap_data.columns]
rename_columns(t, name) ==
  [ index   |-> t.index,
    columns |-> [i \in 1..Len(t.columns) |-> name[t.columns[i]]],
    values  |->
      [rk \in Range(t.index) |->
         [ck \in { name[c] : c \in Range(t.columns) } |->
            t.values[rk][CHOOSE c \in Range(t.columns) : name[c] = ck]]] ]

\* 時間帯 x 曜日 pivot of the amount, its columns then put in weekday order
\* and renamed.
heatmap_data(v) ==
  LET hours == SortedSeq(Unique(v, "hour"), "int")
      pivot == pivot_table(v, "hour", "weekday", hours,
                           observed_keys(v, "weekday"), "sum", 0)
  IN  rename_columns(reindex_columns(pivot, weekday_order), weekday_japanese)

\* 年齢層 x 性別 pivot of the amount.  The categorical index gives a row to
\* every age band.
age_gender_cross(v) ==
  pivot_table(v, "age_band", "gender", age_labels,
              observed_keys(v, "gender"), "sum", 0)

\* 地域 x 購入カテゴリー pivot of the amount.
region_category_cross(v) ==
  pivot_table(v, "region", "category",
              observed_keys(v, "region"),
              observed_keys(v, "category"), "sum", 0)

\* cross.div(cross.sum(axis=1), axis=0) * 100
row_percent(t) ==
  [ index   |-> t.index,
    columns |-> t.columns,
    values  |->
      [rk \in Range(t.index) |->
         [ck \in Range(t.columns) |->
            times(true_divide(t.values[rk][ck],
                              SeqSum([i \in 1..Len(t.columns) |->
                                        t.values[rk][t.columns[i]]])),
                  100)]] ]

\* 年齢層 x 支払方法 counts, as row percentages.
age_payment_pct(v) ==
  row_percent(pivot_table(v, "age_band", "payment", age_labels,
                          observed_keys(v, "payment"), "count", 0))

\* 購入カテゴリー x 支払方法 counts, as row percentages.
category_payment_pct(v) ==
  row_percent(pivot_table(v, "category", "payment",
                          observed_keys(v, "category"),
                          observed_keys(v, "payment"), "count", 0))

\* 購入金額帯 x 支払方法 counts, as row percentages.
amount_payment_pct(v) ==
  row_percent(pivot_table(v, "amount_band", "payment",
                          amount_labels,
                          observed_keys(v, "payment"), "count", 0))

\* ------------------------------------------------- category time series
\* Number of days of a month of the Gregorian calendar.
days_in_month(y, m) ==
  IF m = 2
  THEN (IF (y % 4 = 0 /\ y % 100 # 0) \/ y % 400 = 0 THEN 29 ELSE 28)
  ELSE IF m \in {4, 6, 9, 11} THEN 30 ELSE 31

\* The bin label pd.Grouper(key='購入日', freq='M') gives a Timestamp: the last
\* day of its month, at midnight.
month_end(ts) ==
  [year |-> ts.year, month |-> ts.month,
   day |-> days_in_month(ts.year, ts.month), hour |-> 0]

\* df_filtered.groupby([pd.Grouper(key='購入日', freq='M'), '購入カテゴリー'])
\*   .size().reset_index(name='注文件数'): one row per (month, category) pair
\* that has a record, in key order.
category_time_series(v) ==
  LET keyed == with_key(v, [i \in 1..Len(v) |->
                              <<month_end(v[i].purchase_date), v[i].category>>])
      keys  == SortedSeq(Unique(keyed, "group_key"), "Timestamp, str")
  IN  [i \in 1..Len(keys) |->
         [ purchase_date |-> keys[i][1],
           category      |-> keys[i][2],
           order_count   |-> Len(group_rows(keyed, "group_key", keys[i])) ]]

\* ----------------------------------------------------------- Pareto analysis
\* The row positions of v in an order a descending sort on col can give them:
\* each next row is one of those of largest value among the rows not placed
\* yet.  sort_values is called with its default kind='quicksort', which is not
\* a stable sort, so rows of equal value come out in an order the sort
\* routine chooses.
RECURSIVE descending_orders(_, _, _)
descending_orders(v, col, S) ==
  IF S = {} THEN { <<>> }
  ELSE UNION { { <<i>> \o o : o \in descending_orders(v, col, S \ {i}) } :
               i \in { j \in S : \A k \in S : v[k][col] <= v[j][col] } }

\* df_filtered.sort_values('購入金額', ascending=False): the frames the call
\* can return.
sort_values(v, col) ==
  { [i \in 1..Len(v) |-> v[o[i]]] : o \in descending_orders(v, col, 1..Len(v)) }

\* Series.cumsum()
cumsum(vals) == [i \in 1..Len(vals) |-> SeqSum(SubSeq(vals, 1, i))]

\* cumsum_sales / total_sales * 100 of a sequence of amounts.
cumulative_share(vals) ==
  [i \in 1..Len(vals) |-> times(true_divide(cumsum(vals)[i], SeqSum(vals)), 100)]

\* df_filtered_sorted with its 累計売上比率 column, for each frame the sort can
\* return.
pareto(v) ==
  { [i \in 1..Len(sorted) |->
       sorted[i] @@ [cum_share |-> cumulative_share(Column(sorted, "amount"))[i]]] :
    sorted \in sort_values(v, "amount") }

\* --------------------------------------------------------------- script run
\* The data summary tab formats df_filtered['購入日'].min() with strftime; on
\* an empty view that minimum is NaT, strftime raises, and the run ends there.
summary_raises(v) == Len(v) = 0

\* df_filtered as a run leaves it: the filtered view, with the derived
\* columns when the run got past the summary tab.
run_view(d, w) ==
  IF summary_raises(filter_block(d, w))
  THEN filter_block(d, w)
  ELSE with_derived(filter_block(d, w))

\* ----------------------------------------------------------------- state
VARIABLES
  csv,          \* rows of data/sample-data.csv
  cache,        \* the frame kept by @st.cache_data (<<>> before the first load)
  df,           \* the script's df, with its age_band column
  widgets,      \* the sidebar widgets' values
  df_filtered,  \* the filtered view, with the columns the run added to it
  outcome,      \* "completed", or "raised" when the run stopped on an exception
  n_runs        \* script re-runs so far

vars == <<csv, cache, df, widgets, df_filtered, outcome, n_runs>>

\* The first run of the script, on some data file, with the widgets' defaults.
Init ==
  /\ csv \in Stores
  /\ df = with_age_band(load_data(<<>>, csv))
  /\ widgets = default_widgets(df)
  /\ df_filtered = run_view(df, widgets)
  /\ outcome = IF summary_raises(df_filtered) THEN "raised" ELSE "completed"
  /\ cache = CacheAfterRun(load_data(<<>>, csv), df_filtered)
  /\ n_runs = 0

\* A widget interaction: the widgets take the values w and the script runs
\* again, from load_data to the last tab or to the statement that raises.
Rerun(w) ==
  /\ n_runs < MaxInteractions
  /\ widgets' = w
  /\ df' = with_age_band(load_data(cache, csv))
  /\ df_filtered' = run_view(df', w)
  /\ outcome' = IF summary_raises(df_filtered') THEN "raised" ELSE "completed"
  /\ cache' = CacheAfterRun(load_data(cache, csv), df_filtered')
  /\ n_runs' = n_runs + 1
  /\ csv' = csv

ChangeDateRange ==
  \E x \in date_range_values(df) \ {widgets.date_range} :
     Rerun([widgets EXCEPT !.date_range = x])

SelectCategory ==
  \E x \in categories(df) \ {widgets.selected_category} :
     Rerun([widgets EXCEPT !.selected_category = x])

SelectRegion ==
  \E x \in regions(df) \ {widgets.selected_region} :
     Rerun([widgets EXCEPT !.selected_region = x])

SelectGender ==
  \E x \in genders(df) \ {widgets.selected_gender} :
     Rerun([widgets EXCEPT !.selected_gender = x])

SelectAgeRange ==
  \E x \in age_ranges(df) \ {widgets.selected_age_range} :
     Rerun([widgets EXCEPT !.selected_age_range = x])

SelectPayment ==
  \E x \in payment_methods(df) \ {widgets.selected_payment} :
     Rerun([widgets EXCEPT !.selected_payment = x])

ChangeAmountRange ==
  \E x \in amount_range_values(df) \ {widgets.amount_range} :
     Rerun([widgets EXCEPT !.amount_range = x])

\* An interaction with a widget of the main page (sort order, row count, a
\* button): the script runs again with the filter widgets unchanged.
OtherInteraction == Rerun(widgets)

Next ==
  \/ ChangeDateRange
  \/ SelectCategory
  \/ SelectRegion
  \/ SelectGender
  \/ SelectAgeRange
  \/ SelectPayment
  \/ ChangeAmountRange
  \/ OtherInteraction

Spec == Init /\ [][Next]_vars

\* ================================================================= claims
\* The columns of df.
df_columns ==
  { "index", "customer_id", "purchase_date", "amount", "category", "region",
    "gender", "age", "payment", "age_band" }

\* A row of the view cut back to the columns of df.
df_row(r) == [c \in df_columns |-> r[c]]

\* The index labels of the rows of a frame, in row order.
labels_of(d) == [i \in 1..Len(d) |-> d[i].index]

\* The predicates of the set w, one per slot.
date_ok(r, w) ==
  Len(w.date_range) = 2 =>
     /\ DateLeq(w.date_range[1], dt_date(r.purchase_date))
     /\ DateLeq(dt_date(r.purchase_date), w.date_range[2])

category_ok(r, w) == w.selected_category = ALL \/ r.category = w.selected_category

region_ok(r, w) == w.selected_region = ALL \/ r.region = w.selected_region

gender_ok(r, w) == w.selected_gender = ALL \/ r.gender = w.selected_gender

\* A row without an age band matches no selected band.
age_range_ok(r, w) ==
  w.selected_age_range = ALL
  \/ (r.age_band # NaN /\ r.age_band = w.selected_age_range)

payment_ok(r, w) == w.selected_payment = ALL \/ r.payment = w.selected_payment

amount_ok(r, w) == w.amount_range[1] <= r.amount /\ r.amount <= w.amount_range[2]

\* The index labels of the rows of d that satisfy every active predicate of w.
passing(d, w) ==
  { d[i].index : i \in { j \in 1..Len(d) :
       /\ date_ok(d[j], w)    /\ category_ok(d[j], w) /\ region_ok(d[j], w)
       /\ gender_ok(d[j], w)  /\ age_range_ok(d[j], w) /\ payment_ok(d[j], w)
       /\ amount_ok(d[j], w) } }

\* C1: the filtered view holds exactly the rows of df that satisfy every
\* active predicate (date range inclusive on the date portion, amount range
\* inclusive, 'ALL' inactive), each once, unchanged, and in the order of df.
C1_FilterIsConjunctive ==
  /\ Range(labels_of(df_filtered)) = passing(df, widgets)
  /\ \A i, j \in 1..Len(df_filtered) :
        i < j => df_filtered[i].index < df_filtered[j].index
  /\ \A i \in 1..Len(df_filtered) :
        \E k \in 1..Len(df) : df[k] = df_row(df_filtered[i])

\* C1 witness: a category and a region are both selected, the view keeps a
\* row and leaves out a row that has the category but not the region,
\* and a kept row lies on an end of the date range and on an end of the
\* amount range.
C1_Witness ==
  /\ widgets.selected_category # ALL
  /\ widgets.selected_region # ALL
  /\ Len(df_filtered) > 0
  /\ \E k \in 1..Len(df) :
        /\ df[k].category = widgets.selected_category
        /\ df[k].region # widgets.selected_region
        /\ df[k].index \notin Range(labels_of(df_filtered))
  /\ \E i \in 1..Len(df_filtered) :
        /\ dt_date(df_filtered[i].purchase_date) \in Range(widgets.date_range)
        /\ df_filtered[i].amount \in Range(widgets.amount_range)

\* A predicate set at least as permissive as w in every slot: a date range
\* that contains w's (or no date filter), each selection kept or relaxed to
\* 'ALL', an amount range that contains w's.
more_permissive(d, w) ==
  { [ date_range         |-> dr,
      selected_category  |-> c,
      selected_region    |-> rg,
      selected_gender    |-> g,
      selected_age_range |-> a,
      selected_payment   |-> pm,
      amount_range       |-> am ] :
      dr \in { x \in date_range_values(d) :
                 \/ Len(x) # 2
                 \/ /\ Len(w.date_range) = 2
                    /\ DateLeq(x[1], w.date_range[1])
                    /\ DateLeq(w.date_range[2], x[2]) },
      c  \in {w.selected_category, ALL},
      rg \in {w.selected_region, ALL},
      g  \in {w.selected_gender, ALL},
      a  \in {w.selected_age_range, ALL},
      pm \in {w.selected_payment, ALL},
      am \in { x \in amount_range_values(d) :
                 x[1] <= w.amount_range[1] /\ w.amount_range[2] <= x[2] } }

\* C2: under every predicate set at least as permissive as the current one,
\* the filter keeps every row of the current filtered view.
C2_FilterMonotone ==
  \A w2 \in more_permissive(df, widgets) :
     Range(labels_of(df_filtered)) \subseteq Range(labels_of(filter_block(df, w2)))

\* C2 witness: the current view is not empty, and a predicate set that is
\* more permissive in two slots keeps strictly more rows.
C2_Witness ==
  /\ Len(df_filtered) > 0
  /\ \E w2 \in more_permissive(df, widgets) :
        /\ w2.selected_category # widgets.selected_category
        /\ w2.amount_range # widgets.amount_range
        /\ Len(filter_block(df, w2)) > Len(df_filtered)

\* C3: after any interactions the filtered view is the one a first run on the
\* data file would produce with the current predicates, df is the loaded
\* file with its age band, and a run that changes no predicate leaves the
\* view as it was.
C3_ViewFromStoreOnly ==
  /\ [](/\ df = with_age_band(read_csv(csv))
        /\ df_filtered = run_view(with_age_band(read_csv(csv)), widgets))
  /\ [][widgets' = widgets => df_filtered' = df_filtered]_vars

\* C3 witness: two interactions have changed predicates, and the view holds
\* a row although a category other than that row's could have been selected
\* before.
C3_Witness ==
  /\ n_runs = 2
  /\ widgets.selected_category # ALL
  /\ widgets.date_range = default_widgets(df).date_range
  /\ widgets.selected_region = ALL
  /\ widgets.amount_range = default_widgets(df).amount_range
  /\ Len(df_filtered) > 0
  /\ Len(df_filtered) < Len(csv)

\* C4: a date range with a single date excludes no row: the view holds the
\* rows the other predicates select, and the date step stops no run.
C4_OneBoundIsNoFilter ==
  Len(widgets.date_range) = 1 =>
     /\ Range(labels_of(df_filtered))
          = passing(df, [widgets EXCEPT !.date_range = <<>>])
     /\ (passing(df, [widgets EXCEPT !.date_range = <<>>]) # {}
           => outcome = "completed")

\* C4 witness: a single date is set, a row dated before it is in the view,
\* and another predicate is active and excludes a row.
C4_Witness ==
  /\ Len(widgets.date_range) = 1
  /\ \E i \in 1..Len(df_filtered) :
        ~ DateLeq(widgets.date_range[1], dt_date(df_filtered[i].purchase_date))
  /\ widgets.selected_payment # ALL
  /\ Len(df_filtered) < Len(df)

\* C5: a run whose predicates select no row reaches the end of the script, and
\* its aggregations have no row.
C5_EmptyViewCompletes ==
  Len(df_filtered) = 0 =>
     /\ outcome = "completed"
     /\ Len(monthly_sales(df_filtered)) = 0
     /\ Len(daily_sales(df_filtered)) = 0
     /\ Len(region_distribution(df_filtered)) = 0
     /\ Len(region_category_cross(df_filtered).index) = 0

\* The pivot of the scenario of C6: amounts 10 and 20 for (A, card), 5 for
\* (B, cash).
scenario_pivot ==
  pivot_table(<< [region |-> "A", payment |-> "card", amount |-> 10],
                 [region |-> "A", payment |-> "card", amount |-> 20],
                 [region |-> "B", payment |-> "cash", amount |-> 5] >>,
              "region", "payment",
              <<"A", "B">>, <<"card", "cash">>, "sum", 0)

\* C6: in every two-key pivot handed to the charts a cell without a
\* contributing row is 0 and not a missing value: the hour x weekday heatmap
\* in weekday order, age band x gender, region x category; and the scenario
\* gives A: card 30, cash 0 and B: card 0, cash 5.
C6_PivotCellsZeroFilled ==
  /\ scenario_pivot.values =
       [rk \in {"A", "B"} |->
          [ck \in {"card", "cash"} |->
             IF rk = "A" /\ ck = "card" THEN 30
             ELSE IF rk = "B" /\ ck = "cash" THEN 5 ELSE 0]]
  /\ outcome = "completed" =>
       /\ \A rk \in Range(age_gender_cross(df_filtered).index),
             ck \in Range(age_gender_cross(df_filtered).columns) :
             (~ \E i \in 1..Len(df_filtered) :
                  df_filtered[i].age_band = rk /\ df_filtered[i].gender = ck)
             => age_gender_cross(df_filtered).values[rk][ck] = 0
       /\ \A rk \in Range(region_category_cross(df_filtered).index),
             ck \in Range(region_category_cross(df_filtered).columns) :
             (~ \E i \in 1..Len(df_filtered) :
                  df_filtered[i].region = rk /\ df_filtered[i].category = ck)
             => region_category_cross(df_filtered).values[rk][ck] = 0
       /\ \A rk \in Range(heatmap_data(df_filtered).index),
             ck \in Range(heatmap_data(df_filtered).columns) :
             (~ \E i \in 1..Len(df_filtered) :
                  /\ df_filtered[i].hour = rk
                  /\ weekday_japanese[df_filtered[i].weekday] = ck)
             => heatmap_data(df_filtered).values[rk][ck] = as_float(0)

\* The rows of a percentage pivot t of the view v, keyed by rowkey: a row with
\* records has cells that sum to 100, a row without has cells equal to 0.
percent_rows_ok(t, v, rowkey) ==
  \A rk \in Range(t.index) :
     LET n == Len(SelectSeq(v, LAMBDA r : r[rowkey] = rk))
     IN  /\ n > 0 =>
              /\ \A ck \in Range(t.columns) : t.values[rk][ck].den = n
              /\ SeqSum([i \in 1..Len(t.columns) |->
                           t.values[rk][t.columns[i]].num]) = 100 * n
         /\ n = 0 =>
              \A ck \in Range(t.columns) :
                 t.values[rk][ck].den # 0 /\ t.values[rk][ck].num = 0

\* C7: in the three percentage pivots (age band, category, amount band, each
\* x payment method) a row with a nonzero total sums to 100 and a row with a
\* zero total holds 0 in every cell, not a missing value.
C7_PercentRows ==
  outcome = "completed" =>
     /\ percent_rows_ok(category_payment_pct(df_filtered), df_filtered,
                        "category")
     /\ percent_rows_ok(age_payment_pct(df_filtered), df_filtered,
                        "age_band")
     /\ percent_rows_ok(amount_payment_pct(df_filtered), df_filtered,
                        "amount_band")

\* C8: every single-key aggregation has as many rows as the view has distinct
\* values of the key; a band no row of the view falls in has no row.
C8_RowPerPresentKey ==
  outcome = "completed" =>
     /\ Len(weekday_sales(df_filtered))
          = Cardinality(Unique(df_filtered, "weekday"))
     /\ Len(monthly_distribution(df_filtered))
          = Cardinality(Unique(df_filtered, "month"))
     /\ Len(gender_distribution(df_filtered))
          = Cardinality(Unique(df_filtered, "gender"))
     /\ Len(region_distribution(df_filtered))
          = Cardinality(Unique(df_filtered, "region"))
     /\ Len(category_sales(df_filtered))
          = Cardinality(Unique(df_filtered, "category"))
     /\ Len(payment_distribution(df_filtered))
          = Cardinality(Unique(df_filtered, "payment"))
     /\ Len(age_distribution(df_filtered))
          = Cardinality(Unique(df_filtered, "age_band") \ {NaN})
     /\ Len(amount_range_dist(df_filtered))
          = Cardinality(Unique(df_filtered, "amount_band") \ {NaN})

\* The year and month of a row, as a pair.
year_month(r) == <<r.purchase_date.year, r.purchase_date.month>>

\* C9: the daily series has one row per calendar date of the view, carrying
\* the sum of all rows of that date whatever their hour, in strictly
\* ascending date order; the monthly series has one row per year and month
\* of the view, carrying that month's sum, in chronological order.
C9_OneRowPerBucket ==
  outcome = "completed" =>
     /\ Len(monthly_sales(df_filtered))
          = Cardinality({ year_month(df_filtered[k]) : k \in 1..Len(df_filtered) })
     /\ \A i \in 1..Len(monthly_sales(df_filtered)) :
           \E k \in 1..Len(df_filtered) :
              /\ strftime_Ym(df_filtered[k].purchase_date)
                   = monthly_sales(df_filtered)[i].purchase_date
              /\ monthly_sales(df_filtered)[i].amount
                   = SeqSum(Column(SelectSeq(df_filtered, LAMBDA r :
                              year_month(r) = year_month(df_filtered[k])),
                            "amount"))
              /\ \A j \in (i + 1)..Len(monthly_sales(df_filtered)) :
                    \E l \in 1..Len(df_filtered) :
                       /\ strftime_Ym(df_filtered[l].purchase_date)
                            = monthly_sales(df_filtered)[j].purchase_date
                       /\ \/ year_month(df_filtered[k])[1] < year_month(df_filtered[l])[1]
                          \/ /\ year_month(df_filtered[k])[1] = year_month(df_filtered[l])[1]
                             /\ year_month(df_filtered[k])[2] < year_month(df_filtered[l])[2]
     /\ Len(daily_sales(df_filtered))
          = Cardinality({ dt_date(t) : t \in Unique(df_filtered, "purchase_date") })
     /\ \A i \in 1..Len(daily_sales(df_filtered)) :
           /\ daily_sales(df_filtered)[i].amount
                = SeqSum(Column(SelectSeq(df_filtered, LAMBDA r :
                           dt_date(r.purchase_date)
                             = dt_date(daily_sales(df_filtered)[i].purchase_date)),
                         "amount"))
           /\ \A j \in (i + 1)..Len(daily_sales(df_filtered)) :
                 ~ DateLeq(dt_date(daily_sales(df_filtered)[j].purchase_date),
                           dt_date(daily_sales(df_filtered)[i].purchase_date))

\* The 移動平均 column of a series t is the trailing mean of window w over the
\* rows of t: no value before the window is full, the mean of the w latest
\* amounts from then on.
trailing_mean_ok(t, w) ==
  \A i \in 1..Len(t) :
     /\ i < w => t[i].moving_avg = float_nan
     /\ i >= w =>
          /\ t[i].moving_avg.den # 0
          /\ t[i].moving_avg.num * w
               = t[i].moving_avg.den * SeqSum([k \in 1..w |-> t[i - w + k].amount])

\* C10: the smoothed column of the daily series (window 7) and of the monthly
\* series (window 3) is the trailing mean over the rows of the series, with
\* the no-value marker until the window is full; and window 2 over
\* [100, 300, 200] gives [no value, 200, 250].
C10_TrailingMean ==
  /\ rolling_mean(<<100, 300, 200>>, 2) = <<float_nan, [num |-> 400, den |-> 2],
                                            [num |-> 500, den |-> 2]>>
  /\ outcome = "completed" =>
       /\ trailing_mean_ok(daily_sales(df_filtered), 7)
       /\ trailing_mean_ok(monthly_sales(df_filtered), 3)

\* C10 witness: a completed run whose daily series has filled its window of
\* 7 and gone past it, and whose monthly series has filled its window of 3.
C10_Witness ==
  /\ outcome = "completed"
  /\ Len(daily_sales(df_filtered)) > 7
  /\ Len(monthly_sales(df_filtered)) >= 3
  /\ daily_sales(df_filtered)[8].moving_avg # daily_sales(df_filtered)[7].moving_avg
  /\ daily_sales(df_filtered)[6].moving_avg = float_nan

\* ------------------------------------------------------------------ C11
\* a <= b and a = b for two finite floats (quotients of the same divisor are
\* compared by their dividends).
float_leq(a, b) ==
  IF a.den = b.den THEN a.num <= b.num ELSE a.num * b.den <= b.num * a.den

float_eq(a, b) ==
  IF a.den = b.den THEN a.num = b.num ELSE a.num * b.den = b.num * a.den

\* The order a stable descending sort gives the rows of v: rows of equal
\* value keep their relative order.
stable_descending_order(v, col) ==
  CHOOSE o \in descending_orders(v, col, 1..Len(v)) :
     \A i, j \in 1..Len(v) :
        (i < j /\ v[o[i]][col] = v[o[j]][col]) => o[i] < o[j]

\* The cumulative share column of a Pareto frame is non-decreasing and ends
\* at 100.
share_ok(t) ==
  /\ \A i \in 1..(Len(t) - 1) : float_leq(t[i].cum_share, t[i + 1].cum_share)
  /\ float_eq(t[Len(t)].cum_share, as_float(100))

\* C11: over a view of total amount > 0, the Pareto analysis orders the
\* records by amount descending with records of equal amount in their
\* original relative order, and the cumulative share over that order is
\* non-decreasing and ends at 100; amounts [50,30,20] give shares
\* [50,80,100].
C11_ParetoStableOrder ==
  /\ \A i \in 1..3 :
        float_eq(cumulative_share(<<50, 30, 20>>)[i], as_float(<<50, 80, 100>>[i]))
  /\ (outcome = "completed" /\ SeqSum(Column(df_filtered, "amount")) > 0) =>
        \A t \in pareto(df_filtered) :
           /\ labels_of(t)
                = [i \in 1..Len(df_filtered) |->
                     df_filtered[stable_descending_order(df_filtered, "amount")[i]].index]
           /\ share_ok(t)

\* ------------------------------------------------------------------ C12
\* C12: when the total amount of the view is 0, the Pareto computation
\* reports the cumulative share as undefined through a distinct signal and
\* hands no NaN share to the rendering step.
C12_ZeroTotalSignalled ==
  (outcome = "completed" /\ SeqSum(Column(df_filtered, "amount")) = 0) =>
     \A t \in pareto(df_filtered) :
        \A i \in 1..Len(t) : t[i].cum_share # float_nan

\* ------------------------------------------------------------------ C13
\* The number of records of the view of a given month and category.
records_of(v, ym, c) ==
  Len(SelectSeq(v, LAMBDA r : year_month(r) = ym /\ r.category = c))

\* C13: the category-segmented monthly order-count series has, for every
\* month in which some category has a record in the view, one row for every
\* category occurring in the view, with count 0 where the (month, category)
\* pair has no record; a month with no record has no row.
C13_ZeroCountRows ==
  outcome = "completed" =>
     /\ \A k \in 1..Len(df_filtered) :
           \A c \in Unique(df_filtered, "category") :
              /\ Cardinality({ i \in 1..Len(category_time_series(df_filtered)) :
                    /\ category_time_series(df_filtered)[i].purchase_date
                         = month_end(df_filtered[k].purchase_date)
                    /\ category_time_series(df_filtered)[i].category = c }) = 1
              /\ \A i \in 1..Len(category_time_series(df_filtered)) :
                    ( /\ category_time_series(df_filtered)[i].purchase_date
                           = month_end(df_filtered[k].purchase_date)
                      /\ category_time_series(df_filtered)[i].category = c )
                    => category_time_series(df_filtered)[i].order_count
                         = records_of(df_filtered, year_month(df_filtered[k]), c)
     /\ \A i \in 1..Len(category_time_series(df_filtered)) :
           \E k \in 1..Len(df_filtered) :
              category_time_series(df_filtered)[i].purchase_date
                = month_end(df_filtered[k].purchase_date)

\* ------------------------------------------------------------------ C14
\* The band of x by half-open intervals on the given boundaries, the last
\* band open-ended upward: the label after as many labels as there are
\* boundaries at or below x.
band_of(x, boundaries, labels) ==
  labels[1 + Cardinality({ k \in 1..Len(boundaries) : boundaries[k] <= x })]

\* The row of df a row of the view comes from.
source_row(r) == df[CHOOSE k \in 1..Len(df) : df[k].index = r.index]

\* C14: every record gets exactly one age band and one amount band, by
\* half-open intervals on the boundaries 20,30,40,50,60,70 and
\* 5000,10000,30000,50000 with the last band open-ended upward (an age of 100
\* or more is in the last age band, an amount of 100000 or more in the last
\* amount band), and the band the age-band filter uses is the band the
\* aggregations use.
C14_BandsTotal ==
  /\ \A i \in 1..Len(df) :
        df[i].age_band = band_of(df[i].age, <<20, 30, 40, 50, 60, 70>>, age_labels)
  /\ outcome = "completed" =>
        \A i \in 1..Len(df_filtered) :
           /\ df_filtered[i].age_band
                = band_of(df_filtered[i].age, <<20, 30, 40, 50, 60, 70>>, age_labels)
           /\ df_filtered[i].amount_band
                = band_of(df_filtered[i].amount, <<5000, 10000, 30000, 50000>>,
                          amount_labels)
           /\ df_filtered[i].age_band = source_row(df_filtered[i]).age_band

====
